---------------------------- MODULE Spec2Model ----------------------------
(***************************************************************************)
(* The mdminecraft automation harness client                               *)
(* (tools/harness_client/mdm_harness_client.py): one run of main().        *)
(*                                                                         *)
(* A run is decided by its inputs: the command line (argv), the request    *)
(* script (script, the lines of the file or of stdin) and what the peer    *)
(* sends.  argv and script are drawn by Init; the peer's lines are drawn   *)
(* when the client reads them.  Writes to the socket and to stdout are     *)
(* taken to succeed.                                                       *)
(*                                                                         *)
(* JSON values are tagged tuples: <<"str", s>>, <<"int", n>>, <<"null">>,  *)
(* <<"arr">> and <<"obj", d>> with d a function from keys to values.       *)
(* A line of text is a sequence of tokens: whitespace, a "#", text that is *)
(* not JSON, or the compact JSON text of a value.                          *)
(***************************************************************************)
EXTENDS Integers, Sequences, FiniteSets, TLC

-----------------------------------------------------------------------------
(* Bounds of the model. *)

\* The longest script, in lines.
MaxScript == 2
\* The most non-blank lines the peer sends before its stream ends.
MaxRx == 3
\* The most blank lines the peer sends before a non-blank line.
MaxBlank == 1
\* The largest --timeout-seconds, in sleep intervals of connect_*.
MaxTimeout == 2

-----------------------------------------------------------------------------
(* Program constants. *)

PROTOCOL_VERSION == 1
\* return 0, an uncaught exception under raise SystemExit(main()), return 2.
EXIT_OK == 0
EXIT_EXCEPTION == 1
EXIT_HANDSHAKE == 2
\* argparse's parser.error().
EXIT_USAGE == 2
\* sys.getrecursionlimit(): the interpreter's default limit on nested calls,
\* and the frames a run holds besides the nested read_json_line calls (the
\* module, main and the decoder under the innermost call; CPython 3.11).
RecursionLimit == 1000
FramesAround == 8

-----------------------------------------------------------------------------
(* JSON values and Python's None. *)

None == <<"null">>
JStr(s) == <<"str", s>>
JInt(n) == <<"int", n>>
JArr == <<"arr">>
JObj(d) == <<"obj", d>>

\* isinstance(v, dict), isinstance(v, str)
isinstance_dict(v) == v[1] = "obj"
isinstance_str(v) == v[1] = "str"

\* d.get(key) and key in d, for a dict value v
dict_get(v, key) == IF key \in DOMAIN v[2] THEN v[2][key] ELSE None
dict_has(v, key) == key \in DOMAIN v[2]
\* d[key] = val
dict_set(v, key, val) ==
    JObj([k \in DOMAIN v[2] \cup {key} |-> IF k = key THEN val ELSE v[2][k]])

-----------------------------------------------------------------------------
(* Lines of text. *)

WS == <<"ws">>
HASH == <<"hash">>
JUNK == <<"junk">>
Text(v) == <<"json", v>>

RECURSIVE lstrip(_)
lstrip(line) ==
    IF line # <<>> /\ Head(line) = WS THEN lstrip(Tail(line)) ELSE line

RECURSIVE rstrip(_)
rstrip(line) ==
    IF line # <<>> /\ line[Len(line)] = WS
    THEN rstrip(SubSeq(line, 1, Len(line) - 1))
    ELSE line

\* str.strip()
strip(line) == rstrip(lstrip(line))

\* str.startswith("#")
startswith_hash(line) == line # <<>> /\ Head(line) = HASH

\* json.loads: the value of a text that is one JSON document (surrounding
\* whitespace allowed), and a JSONDecodeError (a ValueError) for any other.
json_loads(line) ==
    LET s == strip(line)
    IN  IF Len(s) = 1 /\ s[1][1] = "json"
        THEN [ok |-> TRUE, value |-> s[1][2]]
        ELSE [ok |-> FALSE, value |-> None]

\* json.dumps(value, separators=(",", ":")): one compact document.
json_dumps(value) == <<Text(value)>>

-----------------------------------------------------------------------------
(* The completion table. *)

\* Mutant: "pulse" is left out of the first test.
expected_completion_event_no_pulse(op) ==
    IF op \in {"set_actions", "set_view", "shutdown"} THEN "ok"
    ELSE IF op = "command" THEN "command_result"
    ELSE IF op = "get_state" THEN "state"
    ELSE IF op = "step" THEN "stepped"
    ELSE IF op = "screenshot" THEN "screenshot"
    ELSE IF op = "hello" THEN "hello"
    ELSE "error"

\* Mutant: the default entry is "ok".
expected_completion_event_default_ok(op) ==
    IF op \in {"set_actions", "pulse", "set_view", "shutdown"} THEN "ok"
    ELSE IF op = "command" THEN "command_result"
    ELSE IF op = "get_state" THEN "state"
    ELSE IF op = "step" THEN "stepped"
    ELSE IF op = "screenshot" THEN "screenshot"
    ELSE IF op = "hello" THEN "hello"
    ELSE "ok"

expected_completion_event(op) ==
    IF op \in {"set_actions", "pulse", "set_view", "shutdown"} THEN "ok"
    ELSE IF op = "command" THEN "command_result"
    ELSE IF op = "get_state" THEN "state"
    ELSE IF op = "step" THEN "stepped"
    ELSE IF op = "screenshot" THEN "screenshot"
    ELSE IF op = "hello" THEN "hello"
    ELSE "error"

\* Mutant: the first event read ends the drain.
drain_done_any(resp, done_event) == TRUE

\* Mutant: only an event that carries no id ends the drain.
drain_done_no_id(resp, done_event) ==
    /\ ~dict_has(resp, "id")
    /\ dict_get(resp, "event") \in {JStr(done_event), JStr("error")}

\* Mutant: an error event does not end the drain.
drain_done_no_error(resp, done_event) ==
    dict_get(resp, "event") = JStr(done_event)

\* The drain loop's exit test, for a response resp (a dict).
drain_done(resp, done_event) ==
    LET event == dict_get(resp, "event")
    IN  event = JStr("error") \/ event = JStr(done_event)

\* Mutant: a response without an event field passes (get("event", "hello")).
hello_rejected_default(hello_resp) ==
    dict_has(hello_resp, "event")
    /\ dict_get(hello_resp, "event") # JStr("hello")

\* The handshake's test of the hello response (a dict).
hello_rejected(hello_resp) == dict_get(hello_resp, "event") # JStr("hello")

\* Mutant: next_id is advanced before the request is built.
hello_request_late_id(id, token) ==
    LET hello_req == JObj([op |-> JStr("hello"), id |-> JInt(id + 1),
                           version |-> JInt(PROTOCOL_VERSION)])
    IN  IF token # <<>>
        THEN dict_set(hello_req, "token", JStr(token))
        ELSE hello_req

\* The hello request: id is next_id when the request is built.
hello_request(id, token) ==
    LET hello_req == JObj([op |-> JStr("hello"), id |-> JInt(id),
                           version |-> JInt(PROTOCOL_VERSION)])
    IN  IF token # <<>>
        THEN dict_set(hello_req, "token", JStr(token))
        ELSE hello_req

\* Mutant: comment lines are not skipped.
is_skipped_blank_only(stripped) == stripped = <<>>

\* The script runner's test for a line to skip, on the stripped line.
is_skipped(stripped) == stripped = <<>> \/ startswith_hash(stripped)

\* Mutant: an id is assigned whether or not the request has one.
needs_id_always(auto_id, req) == auto_id

\* Mutant: an id of null counts as no id (req.get("id") is None).
needs_id_null(auto_id, req) == auto_id /\ dict_get(req, "id") = None

\* The script runner's test for assigning an id to a request (a dict).
needs_id(auto_id, req) == auto_id /\ ~dict_has(req, "id")

\* Mutant: the empty string passes as an op.
op_invalid_empty_ok(op) == ~isinstance_str(op)

\* The script runner's test of a request's op (None when it is absent).
op_invalid(op) == ~isinstance_str(op) \/ op = JStr("")

\* Mutant: the hello response is printed whatever --quiet-hello says.
hello_printed_always(quiet_hello) == TRUE

\* The handshake's test for printing the hello response.
hello_printed(quiet_hello) == ~quiet_hello

\* The connect loop's test, on the clock it has just read.
before_deadline(now, deadline) == now < deadline

\* The RuntimeError the connect loop raises: the transport, the target
\* address and last_err, as the message formats them.
connect_error(kind, addr, last_err) ==
    <<"failed to connect to", kind, addr, last_err>>

-----------------------------------------------------------------------------
(* The line codec. *)

\* write_line: the line put on the wire for a value.
write_line(value) == json_dumps(value)

\* print_event: the line put on stdout for a value.
print_event(value) == json_dumps(value)

\* The blank lines at the head of the stream s: the lines that are empty
\* after decode().strip().
blank_run(s) ==
    CHOOSE k \in 0..Len(s) :
        /\ \A i \in 1..k : strip(s[i]) = <<>>
        /\ k = Len(s) \/ strip(s[k + 1]) # <<>>

\* Mutant: the end of the stream is not told apart (b"" goes to the decoder).
read_json_line_no_eof(s, end, n) ==
    LET k == blank_run(s)
    IN  IF n + k > RecursionLimit - FramesAround
        THEN [exc |-> "RecursionError", value |-> None, line |-> <<>>,
              n |-> RecursionLimit - FramesAround + 1]
        ELSE IF k = Len(s)
        THEN [exc |-> IF end = "closed" THEN "JSONDecodeError" ELSE "timeout",
              value |-> None, line |-> <<>>, n |-> n + k]
        ELSE LET r == json_loads(strip(s[k + 1]))
             IN  [exc |-> IF r.ok THEN "None" ELSE "JSONDecodeError",
                  value |-> r.value, line |-> s[k + 1], n |-> n + k + 1]

\* read_json_line on a stream that delivers the lines of s and then ends
\* (end = "closed": readline returns b""; end = "silent": the socket timeout
\* expires), entered with n lines consumed.  A blank line is skipped by a
\* nested call (line 90), so the k blank lines at the head of s are k
\* nested calls; the interpreter raises RecursionError in the call that
\* passes its limit, and otherwise the innermost call finds the end of the
\* stream or decodes the first non-blank line.  The nesting is counted
\* rather than unfolded call by call.
read_json_line(s, end, n) ==
    LET k == blank_run(s)
    IN  IF n + k > RecursionLimit - FramesAround
        THEN [exc |-> "RecursionError", value |-> None, line |-> <<>>,
              n |-> RecursionLimit - FramesAround + 1]
        ELSE IF k = Len(s)
        THEN [exc |-> IF end = "closed" THEN "EOFError" ELSE "timeout",
              value |-> None, line |-> <<>>, n |-> n + k]
        ELSE LET r == json_loads(strip(s[k + 1]))
             IN  [exc |-> IF r.ok THEN "None" ELSE "JSONDecodeError",
                  value |-> r.value, line |-> s[k + 1], n |-> n + k + 1]

-----------------------------------------------------------------------------
(* The transport connector's address. *)

\* An address is a sequence of characters: "h" a host character, ":" a
\* colon, "d" a digit, "x" a character that is none of these.
\* str.rsplit(":", 1)[1]: what follows the last colon.
RECURSIVE after_last_colon(_)
after_last_colon(raw) ==
    IF \A i \in 1..Len(raw) : raw[i] # ":" THEN raw
    ELSE after_last_colon(Tail(raw))

\* parse_tcp_addr: TRUE when it returns, FALSE when it raises ValueError
\* (no colon, or int(port_raw) fails).
parse_tcp_addr(raw) ==
    /\ \E i \in 1..Len(raw) : raw[i] = ":"
    /\ LET port_raw == after_last_colon(raw)
       IN  port_raw # <<>> /\ \A i \in 1..Len(port_raw) : port_raw[i] = "d"

-----------------------------------------------------------------------------
(* The inputs of a run. *)

NoArg == <<>>
GoodAddr == <<"h", ":", "d">>

BaseArgv ==
    [tcp |-> GoodAddr, uds |-> NoArg, token |-> NoArg, timeout_seconds |-> 1,
     script |-> NoArg, auto_id |-> FALSE, quiet_hello |-> FALSE,
     af_unix |-> TRUE]

\* The command lines that differ in --auto-id: run over every script.
ProtocolArgv == {[BaseArgv EXCEPT !.auto_id = a] : a \in BOOLEAN}

\* The command lines that differ in the target, the token, the timeout, the
\* script file and --quiet-hello (script = <<"missing">>: a path open()
\* cannot open; af_unix = FALSE: a platform whose socket module has no
\* AF_UNIX): run over the short scripts.
OtherArgv ==
    {[BaseArgv EXCEPT !.tcp = NoArg],
     [BaseArgv EXCEPT !.uds = <<"p">>],
     [BaseArgv EXCEPT !.tcp = <<"h">>],
     [BaseArgv EXCEPT !.tcp = <<"h", ":", "x">>],
     [BaseArgv EXCEPT !.tcp = <<"h", ":", "h", ":", "d">>],
     [BaseArgv EXCEPT !.tcp = NoArg, !.uds = <<"p">>],
     [BaseArgv EXCEPT !.tcp = NoArg, !.uds = <<"p">>, !.af_unix = FALSE],
     [BaseArgv EXCEPT !.token = <<"t">>],
     [BaseArgv EXCEPT !.script = <<"file">>, !.auto_id = TRUE],
     [BaseArgv EXCEPT !.script = <<"missing">>],
     [BaseArgv EXCEPT !.quiet_hello = TRUE],
     [BaseArgv EXCEPT !.quiet_hello = TRUE, !.auto_id = TRUE]}
    \cup {[BaseArgv EXCEPT !.timeout_seconds = t] : t \in 0..MaxTimeout}

\* A request line and an event line.
Req(d) == Text(JObj(d))
Ev(name) == Text(JObj([event |-> JStr(name)]))

\* The lines of the scripts.
ScriptLines ==
    {<<>>,
     <<WS, HASH, JUNK>>,
     <<Req([op |-> JStr("get_state")])>>,
     <<WS, Req([op |-> JStr("set_actions"), id |-> JInt(2)]), WS>>,
     <<Req([op |-> JStr("totally_unknown")])>>,
     <<Text(JArr)>>,
     <<Req([id |-> JInt(7)])>>,
     <<Req([op |-> JStr("")])>>,
     <<Req([op |-> JInt(5)])>>,
     <<Req([op |-> JStr("get_state")]), HASH>>}

SeqsUpTo(S, n) == UNION {[1..k -> S] : k \in 0..n}

Scripts == SeqsUpTo(ScriptLines, MaxScript)
ShortScripts == {<<>>, << <<Req([op |-> JStr("get_state")])>> >>}

\* The non-blank lines the peer sends.
PeerLines ==
    {<<Ev("hello")>>, <<Ev("ok")>>, <<Ev("error")>>, <<Ev("log")>>,
     <<WS, Req([event |-> JStr("state"), id |-> JInt(9)])>>,
     <<Req([id |-> JInt(1)])>>,
     <<JUNK>>,
     <<Text(JArr)>>}

\* k blank lines: empty and whitespace-only lines in turn.
Blanks(k) == [i \in 1..k |-> IF i % 2 = 1 THEN <<>> ELSE <<WS>>]

-----------------------------------------------------------------------------
(* The state of a run. *)

VARIABLES
    argv,        \* the command line
    script,      \* the lines of the script file, or of stdin
    pc,          \* where main() is
    conn,        \* the frame of connect_tcp / connect_uds, or NoFrame
    next_id,     \* main's next_id; 0 before line 138 binds it
    lineno,      \* the script lines the for loop has consumed
    done_event,  \* main's done_event; "" before line 176 binds it
    io,          \* the wire: every line written and every non-blank line read
    stdout,      \* the lines printed
    open,        \* the socket, its two files and the script file
    exc,         \* the exception that ended main(), or "None"
    status,      \* the exit status, or -1 while the process runs
    stream_end,  \* how the peer's stream ended under a read, or "open"
    reader       \* a stream under read_json_line calls alone, or NoReader

vars == <<argv, script, pc, conn, next_id, lineno, done_event, io, stdout,
          open, exc, status, stream_end, reader>>

NoFrame == [deadline |-> -1, now |-> -1, last_err |-> "None", raised |-> <<>>]
NoResult == [exc |-> "None", value |-> None, line |-> <<>>, n |-> 0]
NoReader == [rest |-> <<>>, before |-> <<>>, end |-> "open", calls |-> 0,
             result |-> NoResult]

InitRest ==
    /\ pc = "parse_args"
    /\ conn = NoFrame
    /\ next_id = 0
    /\ lineno = 0
    /\ done_event = ""
    /\ io = <<>>
    /\ stdout = <<>>
    /\ open = [sock |-> "none", reader |-> "none", writer |-> "none",
               file |-> "none"]
    /\ exc = "None"
    /\ status = -1
    /\ stream_end = "open"
    /\ reader = NoReader

Init ==
    /\ \/ argv \in ProtocolArgv /\ script \in Scripts
       \/ argv \in OtherArgv /\ script \in ShortScripts
    /\ InitRest

\* The non-blank lines read so far.
RxCount == Cardinality({i \in 1..Len(io) : io[i].d = "r"})

\* What one read_json_line call can find on the stream: up to MaxBlank
\* blank lines and then a non-blank line of E, or the end of the stream
\* (the peer closed it, or the peer is silent until the timeout).
Stream(E) ==
    {[s |-> Blanks(k) \o <<l>>, end |-> "closed"] :
        k \in 0..MaxBlank, l \in IF RxCount < MaxRx THEN E ELSE {}}
    \cup {[s |-> Blanks(k), end |-> e] :
        k \in 0..MaxBlank, e \in {"closed", "silent"}}

\* An uncaught exception outside the try statement: the process exits.
Raise(e) ==
    /\ exc' = e
    /\ status' = EXIT_EXCEPTION
    /\ pc' = "exit"

-----------------------------------------------------------------------------
(* main(), lines 101-128: argparse. *)

ParseArgs ==
    /\ pc = "parse_args"
    /\ IF (argv.tcp # NoArg) = (argv.uds # NoArg)
       THEN \* the required mutually exclusive group: parser.error()
            /\ pc' = "exit"
            /\ status' = EXIT_USAGE
       ELSE /\ pc' = "connect"
            /\ status' = status
    /\ UNCHANGED <<argv, script, stream_end, reader,
                   conn, next_id, lineno, done_event, io,
                   stdout, open, exc>>

(* main(), lines 130-133, and connect_tcp / connect_uds up to their loop. *)
Connect ==
    /\ pc = "connect"
    /\ IF argv.tcp # NoArg /\ ~parse_tcp_addr(argv.tcp)
       THEN Raise("ValueError") /\ conn' = conn
       ELSE IF argv.tcp = NoArg /\ ~argv.af_unix
       THEN Raise("RuntimeError") /\ conn' = conn
       ELSE /\ conn' = [deadline |-> argv.timeout_seconds, now |-> 0,
                        last_err |-> "None", raised |-> <<>>]
            /\ pc' = "connect_loop"
            /\ UNCHANGED <<exc, status>>
    /\ UNCHANGED <<argv, script, stream_end, reader,
                   next_id, lineno, done_event, io, stdout,
                   open>>

(* One turn of the loop of connect_tcp (lines 35-43) or connect_uds (lines  *)
(* 51-60).  Time is counted in sleep intervals from the call: the test      *)
(* reads the clock, an attempt takes d intervals, and after a failed        *)
(* attempt the loop sleeps one interval.                                    *)
ConnectLoop ==
    /\ pc = "connect_loop"
    /\ IF before_deadline(conn.now, conn.deadline)
       THEN \E d \in 0..1, ok \in BOOLEAN :
              IF ok
              THEN /\ open' = [open EXCEPT !.sock = "open"]
                   /\ conn' = NoFrame
                   /\ pc' = "hello"
                   /\ UNCHANGED <<exc, status>>
              ELSE /\ conn' = [conn EXCEPT !.now = conn.now + d + 1,
                                           !.last_err = "OSError"]
                   /\ UNCHANGED <<open, pc, exc, status>>
       ELSE /\ Raise("RuntimeError")
            /\ conn' = [conn EXCEPT !.raised =
                          IF argv.tcp # NoArg
                          THEN connect_error("tcp", argv.tcp, conn.last_err)
                          ELSE connect_error("uds", argv.uds, conn.last_err)]
            /\ open' = open
    /\ UNCHANGED <<argv, script, stream_end, reader,
                   next_id, lineno, done_event, io, stdout>>

(* main(), lines 135-143: the hello request. *)
SendHello ==
    /\ pc = "hello"
    /\ open' = [open EXCEPT !.reader = "open", !.writer = "open"]
    /\ io' = Append(io, [d |-> "w",
                         line |-> write_line(hello_request(1, argv.token))])
    /\ next_id' = 1 + 1
    /\ pc' = "hello_resp"
    /\ UNCHANGED <<argv, script, stream_end, reader,
                   conn, lineno, done_event, stdout, exc, status>>

\* The wire after a read_json_line call that returned or raised r.
Received(r) ==
    IF r.line = <<>> THEN io ELSE Append(io, [d |-> "r", line |-> r.line])

\* How the stream st ends under one read_json_line call: the call finds the
\* end when every line left is blank.
Ended(st) ==
    IF \A i \in 1..Len(st.s) : \A c \in 1..Len(st.s[i]) : st.s[i][c] = WS
    THEN st.end ELSE stream_end

(* main(), lines 144-148: the hello response. *)
ReadHelloFrom(S) ==
    /\ pc = "hello_resp"
    /\ \E st \in S :
         \E r \in {read_json_line(st.s, st.end, 0)} :
             /\ io' = Received(r)
             /\ stream_end' = Ended(st)
             /\ IF r.exc # "None"
                THEN Raise(r.exc) /\ stdout' = stdout
                ELSE /\ stdout' = IF hello_printed(argv.quiet_hello)
                                  THEN Append(stdout, print_event(r.value))
                                  ELSE stdout
                     /\ IF ~isinstance_dict(r.value)
                        THEN Raise("AttributeError")
                        ELSE IF hello_rejected(r.value)
                        THEN /\ status' = EXIT_HANDSHAKE
                             /\ pc' = "exit"
                             /\ exc' = exc
                        ELSE /\ pc' = "open_script"
                             /\ UNCHANGED <<exc, status>>
    /\ UNCHANGED <<argv, script, conn, next_id, lineno, done_event, open,
                   reader>>

\* The hello response, from a peer that sends lines of E or ends the stream.
ReadHello(E) == ReadHelloFrom(Stream(E))

(* main(), lines 150-154: the input stream. *)
OpenScript ==
    /\ pc = "open_script"
    /\ IF argv.script = <<"missing">>
       THEN Raise("FileNotFoundError") /\ open' = open
       ELSE /\ open' = IF argv.script # NoArg
                       THEN [open EXCEPT !.file = "open"] ELSE open
            /\ pc' = "loop"
            /\ UNCHANGED <<exc, status>>
    /\ UNCHANGED <<argv, script, stream_end, reader,
                   conn, next_id, lineno, done_event, io,
                   stdout>>

\* An exception inside the try statement: the finally clause runs.
RaiseInTry(e) ==
    /\ exc' = e
    /\ pc' = "finally"

(* main(), lines 157-176: one turn of the for loop, up to the drain. *)
NextLine ==
    /\ pc = "loop"
    /\ IF lineno = Len(script)
       THEN \* the input is exhausted
            /\ pc' = "finally"
            /\ UNCHANGED <<lineno, next_id, done_event, io, exc>>
       ELSE LET raw == script[lineno + 1]
                stripped == strip(raw)
                parsed == json_loads(stripped)
                req == parsed.value
                op == dict_get(req, "op")
                assign == needs_id(argv.auto_id, req)
                sent == IF assign THEN dict_set(req, "id", JInt(next_id))
                        ELSE req
            IN  /\ lineno' = lineno + 1
                /\ IF is_skipped(stripped)
                   THEN UNCHANGED <<pc, next_id, done_event, io, exc>>
                   ELSE IF ~parsed.ok
                   THEN /\ RaiseInTry("JSONDecodeError")
                        /\ UNCHANGED <<next_id, done_event, io>>
                   ELSE IF ~isinstance_dict(req)
                   THEN /\ RaiseInTry("ValueError")
                        /\ UNCHANGED <<next_id, done_event, io>>
                   ELSE IF op_invalid(op)
                   THEN /\ RaiseInTry("ValueError")
                        /\ UNCHANGED <<next_id, done_event, io>>
                   ELSE /\ next_id' = IF assign THEN next_id + 1 ELSE next_id
                        /\ io' = Append(io, [d |-> "w",
                                             line |-> write_line(sent)])
                        /\ done_event' = expected_completion_event(op[2])
                        /\ pc' = "drain"
                        /\ exc' = exc
    /\ UNCHANGED <<argv, script, stream_end, reader,
                   conn, stdout, open, status>>

(* main(), lines 177-182: one turn of the drain loop. *)
DrainFrom(S) ==
    /\ pc = "drain"
    /\ \E st \in S :
         \E r \in {read_json_line(st.s, st.end, 0)} :
             /\ io' = Received(r)
             /\ stream_end' = Ended(st)
             /\ IF r.exc # "None"
                THEN RaiseInTry(r.exc) /\ stdout' = stdout
                ELSE /\ stdout' = Append(stdout, print_event(r.value))
                     /\ IF ~isinstance_dict(r.value)
                        THEN RaiseInTry("AttributeError")
                        ELSE /\ pc' = IF drain_done(r.value, done_event)
                                      THEN "loop" ELSE "drain"
                             /\ exc' = exc
    /\ UNCHANGED <<argv, script, conn, next_id, lineno, done_event, open,
                   status, reader>>

\* One turn of the drain loop, from a peer that sends lines of E or ends
\* the stream.
Drain(E) == DrainFrom(Stream(E))

(* main(), lines 183-192: the finally clause, and the return. *)
Finally ==
    /\ pc = "finally"
    /\ open' = [sock |-> "closed", reader |-> "closed", writer |-> "closed",
                file |-> IF argv.script # NoArg THEN "closed" ELSE open.file]
    /\ status' = IF exc = "None" THEN EXIT_OK ELSE EXIT_EXCEPTION
    /\ pc' = "exit"
    /\ UNCHANGED <<argv, script, stream_end, reader,
                   conn, next_id, lineno, done_event, io,
                   stdout, exc>>

Next ==
    \/ ParseArgs
    \/ Connect
    \/ ConnectLoop
    \/ SendHello
    \/ ReadHello(PeerLines)
    \/ OpenScript
    \/ NextLine
    \/ Drain(PeerLines)
    \/ Finally

Spec == Init /\ [][Next]_vars

-----------------------------------------------------------------------------
(* Runs over the whole completion table: scripts of requests for every     *)
(* operation of the table and one outside it, against a peer that sends    *)
(* events of every name of the table and one outside it.                   *)

TableOps ==
    {"set_actions", "pulse", "set_view", "shutdown", "command", "get_state",
     "step", "screenshot", "hello"}

TableEvents ==
    {"ok", "command_result", "state", "stepped", "screenshot", "hello",
     "error"}

TableScriptLines ==
    {<<Req([op |-> JStr(o)])>> : o \in TableOps \cup {"totally_unknown"}}

\* One request of the table, alone or followed by a second request.
TableScripts ==
    {<<l>> : l \in TableScriptLines}
    \cup {<<l, <<Req([op |-> JStr("pulse"), id |-> JInt(5)])>> >> :
             l \in TableScriptLines}

TablePeerLines ==
    {<<Ev(n)>> : n \in TableEvents \cup {"log"}}
    \cup {<<Req([id |-> JInt(1)])>>}

InitTable ==
    /\ argv = BaseArgv
    /\ script \in TableScripts
    /\ InitRest

NextTable ==
    \/ ParseArgs
    \/ Connect
    \/ ConnectLoop
    \/ SendHello
    \/ ReadHello(TablePeerLines)
    \/ OpenScript
    \/ NextLine
    \/ Drain(TablePeerLines)
    \/ Finally

SpecTable == InitTable /\ [][NextTable]_vars


-----------------------------------------------------------------------------
(* The wire trace, for the properties below. *)

IsWrite(i) == io[i].d = "w"
IsRead(i) == io[i].d = "r"

\* The value the line at place i of the wire carries.
Value(i) == json_loads(io[i].line).value

\* The event field of the value a line carries; None when the line is not
\* the text of an object, or the object has no event field.
LineEvent(line) ==
    LET r == json_loads(line)
    IN  IF r.ok /\ isinstance_dict(r.value)
        THEN dict_get(r.value, "event") ELSE None

\* The line read at place i is an event named name.
ReadsEvent(i, name) == IsRead(i) /\ LineEvent(io[i].line) = JStr(name)

Writes == {i \in 1..Len(io) : IsWrite(i)}
\* The requests of the script on the wire: every write but the hello.
ScriptWrites == {i \in 2..Len(io) : IsWrite(i)}

\* The op (a string) and the id of the request written at place i.
Op(i) == dict_get(Value(i), "op")[2]
Id(i) == dict_get(Value(i), "id")

\* The place of the next write after place i, or past the end of the wire.
NextWrite(i) ==
    LET later == {j \in ScriptWrites : j > i}
    IN  IF later = {} THEN Len(io) + 1
        ELSE CHOOSE j \in later : \A k \in later : j <= k

\* The place of the last write before place k.
LastWrite(k) ==
    CHOOSE i \in Writes : i < k /\ \A j \in Writes : j < k => j <= i

\* The completion table as the specification gives it.
CompletionTable ==
    [o \in TableOps |->
        IF o \in {"set_actions", "pulse", "set_view", "shutdown"} THEN "ok"
        ELSE IF o = "command" THEN "command_result"
        ELSE IF o = "get_state" THEN "state"
        ELSE IF o = "step" THEN "stepped"
        ELSE o]

\* The read at place k is an error event or the completion event of the
\* request written at place i.
Completes(k, i) ==
    \/ ReadsEvent(k, "error")
    \/ Op(i) \in TableOps /\ ReadsEvent(k, CompletionTable[Op(i)])

\* A script line that is blank, and one whose first character that is not
\* whitespace is "#".
IsBlankLine(line) == \A n \in 1..Len(line) : line[n] = WS
IsCommentLine(line) ==
    \E n \in 1..Len(line) :
        line[n] = HASH /\ \A m \in 1..(n - 1) : line[m] = WS
IsSkipLine(line) == IsBlankLine(line) \/ IsCommentLine(line)

\* A script line that is a JSON object with a non-empty string op.
IsRequestLine(line) ==
    LET r == json_loads(line)
    IN  /\ r.ok
        /\ isinstance_dict(r.value)
        /\ dict_has(r.value, "op")
        /\ isinstance_str(dict_get(r.value, "op"))
        /\ dict_get(r.value, "op") # JStr("")

WellFormedScript ==
    \A l \in 1..Len(script) :
        IsSkipLine(script[l]) \/ IsRequestLine(script[l])

\* The lines of the script that are neither blank nor comments, in order.
RequestLineIdx ==
    SelectSeq([l \in 1..Len(script) |-> l],
              LAMBDA l : ~IsSkipLine(script[l]))

\* The script line of the request written at place i.
SourceLine(i) ==
    script[RequestLineIdx[Cardinality({j \in ScriptWrites : j <= i})]]

\* The id of the request written at place i was assigned by the runner.
AutoAssigned(i) ==
    /\ i \in ScriptWrites
    /\ argv.auto_id
    /\ ~dict_has(json_loads(SourceLine(i)).value, "id")

\* The run has reached the end of its input.
EndOfInput ==
    \/ pc = "finally" /\ exc = "None"
    \/ pc = "exit" /\ status = EXIT_OK

-----------------------------------------------------------------------------
(* Properties. *)

\* C1: the first line on the wire is the hello request, with id 1 and
\* version 1, and any other request is written only after exactly one
\* response has been read: the second line of the wire is a line read, that
\* decodes, and the third is the first request of the script.
C1_HelloFirst ==
    /\ Len(io) >= 1 =>
         /\ IsWrite(1)
         /\ isinstance_dict(Value(1))
         /\ dict_get(Value(1), "op") = JStr("hello")
         /\ dict_get(Value(1), "id") = JInt(1)
         /\ dict_get(Value(1), "version") = JInt(1)
    /\ Len(io) >= 2 => IsRead(2)
    /\ \A i \in ScriptWrites :
         i >= 3 /\ json_loads(io[2].line).ok /\ IsWrite(3)

\* C1's case: a request of the script follows the hello and its response.
C1_Witness == Len(io) >= 3 /\ IsWrite(1) /\ IsRead(2) /\ IsWrite(3)

\* C2: when the handshake response is an object whose event is not "hello"
\* (another name, or no event field), the run has ended with status 2, the
\* wire holds the hello request and that response only, and no script line
\* was read.
C2_HandshakeRejected ==
    (Len(io) >= 2 /\ IsRead(2) /\ json_loads(io[2].line).ok
        /\ isinstance_dict(Value(2)) /\ LineEvent(io[2].line) # JStr("hello"))
    => /\ pc = "exit"
       /\ status = 2
       /\ Len(io) = 2
       /\ lineno = 0

\* C2's case: the handshake response is an object without an event field,
\* and the run has ended with status 2.
C2_Witness ==
    /\ Len(io) = 2 /\ IsRead(2) /\ json_loads(io[2].line).ok
    /\ isinstance_dict(Value(2)) /\ ~dict_has(Value(2), "event")
    /\ pc = "exit" /\ status = 2

\* C3: between two requests of the script on the wire, an error event or
\* the first one's completion event is read; and at most one request of the
\* script has no such event read after it.
C3_NoPipelining ==
    /\ \A i \in ScriptWrites, j \in ScriptWrites :
         i < j => \E k \in (i + 1)..(j - 1) : Completes(k, i)
    /\ Cardinality({i \in ScriptWrites :
                      ~\E k \in (i + 1)..(NextWrite(i) - 1) : Completes(k, i)})
         <= 1

\* C3's case: two requests of the script are on the wire.
C3_Witness == \E i \in ScriptWrites, j \in ScriptWrites : i < j

\* C4: at the end of the input of a well-formed script, the events read
\* after the handshake that are an error or the completion event of the
\* request they answer are as many as the lines of the script that are
\* neither blank nor comments, and as many as the requests written.
C4_EventsMatchLines ==
    (EndOfInput /\ WellFormedScript) =>
        LET done == {k \in 3..Len(io) :
                        IsRead(k) /\ Completes(k, LastWrite(k))}
        IN  /\ Cardinality(done) = Len(RequestLineIdx)
            /\ Cardinality(done) = Cardinality(ScriptWrites)

\* C4's case: a run over two requests has ended with status 0.
C4_Witness ==
    /\ pc = "exit" /\ status = EXIT_OK
    /\ WellFormedScript
    /\ Len(RequestLineIdx) = 2

\* C5: for a request whose op is in the completion table, every line read
\* between it and the next request that is an error event or the table's
\* event is the last line read before the next request (and the drain is
\* over once it is read); every other event read there is followed by
\* another read, or the runner is still draining, or the read after it
\* failed.
C5_DrainStopsAtCompletion ==
    \A i \in ScriptWrites :
        Op(i) \in TableOps =>
            \A k \in (i + 1)..(NextWrite(i) - 1) :
                IF Completes(k, i)
                THEN /\ k = NextWrite(i) - 1
                     /\ k = Len(io) => pc # "drain"
                ELSE (json_loads(io[k].line).ok /\ isinstance_dict(Value(k)))
                     => \/ k < NextWrite(i) - 1
                        \/ k = Len(io) /\ (pc = "drain" \/ exc # "None")

\* C5's case: a command request, an ok event that does not complete it, its
\* command_result, and then the next request.
C5_Witness ==
    /\ Len(io) = 6
    /\ IsWrite(3) /\ Op(3) = "command"
    /\ ReadsEvent(4, "ok")
    /\ ReadsEvent(5, "command_result")
    /\ IsWrite(6)

\* C6: after a request whose op is not in the completion table, as long as
\* no error event has been read, no further request is written and the run
\* has not reached the end of its input: the runner is draining, or a read
\* has failed.
C6_UnknownOpOnlyError ==
    \A i \in ScriptWrites :
        (Op(i) \notin TableOps
            /\ ~\E k \in (i + 1)..Len(io) : ReadsEvent(k, "error"))
        => /\ \A j \in ScriptWrites : j <= i
           /\ ~EndOfInput
           /\ pc = "drain" \/ (pc \in {"finally", "exit"} /\ exc # "None")

\* C6's case: an unknown op answered by an ok event and another event; the
\* runner is still draining.
C6_Witness ==
    /\ Len(io) = 5
    /\ IsWrite(3) /\ Op(3) = "totally_unknown"
    /\ ReadsEvent(4, "ok")
    /\ ReadsEvent(5, "log")
    /\ pc = "drain"

\* C7: an id the runner assigns never equals an id already on the wire: a
\* request whose id was assigned by the runner carries an id that no
\* earlier request, the hello included, carries.
C7_AutoIdFresh ==
    \A a \in Writes, b \in Writes :
        (a < b /\ AutoAssigned(b)) => Id(a) # Id(b)

\* C8: the hello carries id 1; once it is written, next_id is 2 plus the
\* number of ids the runner has assigned; and the k-th request that the
\* runner assigned an id carries id k + 1.
C8_IdCounter ==
    /\ Len(io) >= 1 => Id(1) = JInt(1)
    /\ Len(io) >= 1 =>
         next_id = 2 + Cardinality({i \in ScriptWrites : AutoAssigned(i)})
    /\ \A i \in ScriptWrites :
         AutoAssigned(i) =>
            Id(i) = JInt(1 + Cardinality({j \in ScriptWrites :
                                             j <= i /\ AutoAssigned(j)}))

\* C8's case: with auto-id, a request with its own id and then one without:
\* the second is the first the runner assigns an id.
C8_Witness ==
    /\ argv.auto_id
    /\ \E i \in ScriptWrites, j \in ScriptWrites :
         /\ i < j
         /\ ~AutoAssigned(i) /\ dict_has(Value(i), "id")
         /\ AutoAssigned(j) /\ Id(j) = JInt(2)
    /\ next_id = 3

\* C9: the step of the for loop on a blank line or a comment line changes
\* neither the wire, nor the output, nor next_id; it raises nothing and the
\* loop goes on to the next line.
C9_SkippedLinesSilent ==
    [][(pc = "loop" /\ lineno < Len(script)
           /\ IsSkipLine(script[lineno + 1]))
       => /\ io' = io
          /\ stdout' = stdout
          /\ next_id' = next_id
          /\ exc' = exc
          /\ pc' = "loop"
          /\ lineno' = lineno + 1]_vars

\* C9's case: a blank line and a comment line have been processed.
C9_Witness ==
    /\ pc = "loop" /\ lineno = 2
    /\ IsBlankLine(script[1])
    /\ IsCommentLine(script[2]) /\ ~IsBlankLine(script[2])

\* C10: the step of the drain loop that reads an error event prints it,
\* raises nothing and goes back to the for loop; and a run over a
\* well-formed script in which every request was answered by an error event
\* has, once it has ended, consumed the whole script and exited with
\* status 0.
C10_ErrorEventNotFatal ==
    /\ [][(pc = "drain" /\ Len(io') = Len(io) + 1
              /\ LineEvent(io'[Len(io')].line) = JStr("error"))
          => /\ pc' = "loop"
             /\ exc' = "None"
             /\ status' = status
             /\ Len(stdout') = Len(stdout) + 1
             /\ json_loads(stdout'[Len(stdout')]).value
                  = json_loads(io'[Len(io')].line).value]_vars
    /\ []((pc = "exit" /\ ScriptWrites # {} /\ WellFormedScript
              /\ \A i \in ScriptWrites :
                    i < Len(io) /\ ReadsEvent(i + 1, "error"))
          => (status = 0 /\ lineno = Len(script)))

\* C10's case: two requests, each answered by an error event, and the run
\* has ended with status 0.
C10_Witness ==
    /\ pc = "exit" /\ status = 0
    /\ Len(io) = 6
    /\ IsWrite(3) /\ ReadsEvent(4, "error")
    /\ IsWrite(5) /\ ReadsEvent(6, "error")

-----------------------------------------------------------------------------
(* The outcomes of a run. *)

\* A handshake response line was read.
HandshakeRead == Len(io) >= 2 /\ IsRead(2)

\* The handshake response is an object that is not a hello event.
HandshakeNotHello ==
    /\ HandshakeRead
    /\ json_loads(io[2].line).ok
    /\ isinstance_dict(Value(2))
    /\ LineEvent(io[2].line) # JStr("hello")

\* The run went through the handshake and the whole script without an
\* exception.
FullSuccess ==
    /\ HandshakeRead /\ ReadsEvent(2, "hello")
    /\ lineno = Len(script)
    /\ exc = "None"

\* C11: a run that has ended has status 0 when it was fully successful,
\* status 2 when the handshake response was not a hello event, and a status
\* that is neither 0 nor 2 on every other outcome (configuration error,
\* connection error, decode error, stream end, validation error); so status
\* 2 occurs only after a handshake response was read.
C11_ExitStatus ==
    pc = "exit" =>
        /\ FullSuccess => status = EXIT_OK
        /\ HandshakeNotHello => status = 2
        /\ ~FullSuccess /\ ~HandshakeNotHello => status \notin {0, 2}
        /\ status = 2 => HandshakeRead

\* The stream (the socket and its two files) and the script file at the end
\* of a run.
StreamClosed ==
    open.sock = "closed" /\ open.reader # "open" /\ open.writer # "open"
FileClosed == open.file # "open"

\* C12: when a run that established the connection has ended, by whatever
\* path (end of script, handshake rejection, stream end or decode error in
\* the handshake read, failure to open the script file, validation error,
\* stream end or decode error in a drain), the stream is closed; and a
\* script file that was opened is closed.
C12_ClosedOnExit ==
    pc = "exit" =>
        /\ open.sock # "none" => StreamClosed
        /\ FileClosed

-----------------------------------------------------------------------------
(* Runs against a server that keeps its side of the protocol: it answers  *)
(* the hello with a hello event and every request, after at most a few     *)
(* other events, with the request's completion event or an error event,    *)
(* and it never ends the stream.  The scripts are well formed.             *)

LiveScriptLines ==
    {<<WS, HASH, JUNK>>,
     <<Req([op |-> JStr("get_state")])>>,
     <<WS, Req([op |-> JStr("set_actions"), id |-> JInt(2)]), WS>>,
     <<Req([op |-> JStr("totally_unknown")])>>}

LiveArgv ==
    {[BaseArgv EXCEPT !.script = <<"file">>, !.auto_id = TRUE],
     [BaseArgv EXCEPT !.quiet_hello = TRUE]}

InitLive ==
    /\ argv \in LiveArgv
    /\ script \in SeqsUpTo(LiveScriptLines, MaxScript)
    /\ InitRest

\* The server's answer to the hello.
HelloAnswer ==
    {[s |-> Blanks(k) \o << <<Ev("hello")>> >>, end |-> "silent"] :
        k \in 0..MaxBlank}

\* The request the server is answering, and whether it has answered it.
Pending == LastWrite(Len(io) + 1)
Answered == \E k \in (Pending + 1)..Len(io) : Completes(k, Pending)

\* The events that answer the pending request, and the other events the
\* server sends before it answers.
AnswerLines ==
    {<<Ev("error")>>}
    \cup (IF Op(Pending) \in TableOps
          THEN {<<Ev(CompletionTable[Op(Pending)])>>} ELSE {})
OtherLines == {<<Ev("log")>>}

\* What one read of the drain finds: the server sends other events only
\* while fewer than MaxRx lines were read, and nothing after its answer.
ServerStream ==
    IF Answered THEN {}
    ELSE {[s |-> Blanks(k) \o <<l>>, end |-> "silent"] :
             k \in 0..MaxBlank,
             l \in AnswerLines
                   \cup (IF RxCount < MaxRx THEN OtherLines ELSE {})}

NextLive ==
    \/ ParseArgs
    \/ Connect
    \/ ConnectLoop
    \/ SendHello
    \/ ReadHelloFrom(HelloAnswer)
    \/ OpenScript
    \/ NextLine
    \/ DrainFrom(ServerStream)
    \/ Finally

\* The client takes its next step whenever it has one.
SpecLive == InitLive /\ [][NextLive]_vars /\ WF_vars(NextLive)

\* The places of the script's requests on the wire, in order.
ScriptWriteSeq ==
    SelectSeq([i \in 1..Len(io) |-> i], LAMBDA i : i >= 2 /\ IsWrite(i))

\* The wire carries the requests of the script, all of them, in script order.
AllRequestsWritten ==
    /\ Len(ScriptWriteSeq) = Len(RequestLineIdx)
    /\ \A n \in 1..Len(RequestLineIdx) :
         dict_get(Value(ScriptWriteSeq[n]), "op")
             = dict_get(json_loads(script[RequestLineIdx[n]]).value, "op")

\* C13: under a server that answers the hello with a hello event and
\* eventually answers every request with its completion event or an error
\* event, a run over a well-formed script that has connected eventually has
\* written every request in script order, reached the end of its input,
\* closed the stream and ended with status 0.
C13_RunCompletes ==
    (pc = "hello")
        ~> (/\ pc = "exit" /\ status = EXIT_OK
            /\ WellFormedScript
            /\ AllRequestsWritten
            /\ lineno = Len(script)
            /\ StreamClosed)

\* A run of two requests has ended with status 0 after the server sent
\* another event before one of its answers.
C13_Witness ==
    /\ pc = "exit" /\ status = EXIT_OK
    /\ Len(ScriptWriteSeq) = 2
    /\ \E k \in 3..Len(io) : ReadsEvent(k, "log")
    /\ StreamClosed

-----------------------------------------------------------------------------
(* The printed events. *)

\* The events received so far, in arrival order: the values of the lines
\* read that decode.
EventsReceived ==
    LET got == SelectSeq(io, LAMBDA e : e.d = "r" /\ json_loads(e.line).ok)
    IN  [n \in 1..Len(got) |-> json_loads(got[n].line).value]

\* The events printed so far, in print order.
EventsPrinted == [n \in 1..Len(stdout) |-> json_loads(stdout[n]).value]

\* C14: in every state of a run the printed events are the received events
\* in arrival order, each once and printed before the next read; with
\* --quiet-hello the handshake response, and only it, is left out, and it is
\* validated all the same (a response that is not hello ends the run with
\* status 2).
C14_PrintedIsReceived ==
    /\ EventsPrinted = IF argv.quiet_hello /\ EventsReceived # <<>>
                       THEN Tail(EventsReceived) ELSE EventsReceived
    /\ \A n \in 1..Len(stdout) : json_loads(stdout[n]).ok
    /\ HandshakeNotHello => pc = "exit" /\ status = EXIT_HANDSHAKE

\* With --quiet-hello three events were received and the two after the
\* hello response were printed.
C14_Witness ==
    /\ argv.quiet_hello
    /\ Len(EventsReceived) = 3
    /\ Len(stdout) = 2
    /\ EventsPrinted[1] # EventsPrinted[2]

-----------------------------------------------------------------------------
(* Validation of script lines. *)

\* A script line that parses to a value that is not an object, or to an
\* object whose op is absent, not a string, or the empty string.
IsInvalidLine(line) ==
    LET r == json_loads(line)
    IN  /\ r.ok
        /\ \/ ~isinstance_dict(r.value)
           \/ ~dict_has(r.value, "op")
           \/ ~isinstance_str(dict_get(r.value, "op"))
           \/ dict_get(r.value, "op") = JStr("")

\* The run has failed on the validation of the script line it consumed last.
ValidationFailed == exc = "ValueError" /\ lineno > 0

\* The lines before line l that are neither blank nor comments, in order.
RequestLinesBefore(l) ==
    SelectSeq([m \in 1..(l - 1) |-> m], LAMBDA m : ~IsSkipLine(script[m]))

\* C15: a script line that parses to a non-object, or to an object whose op
\* is absent, not a string or empty, is a fatal validation error: the step
\* that consumes it writes nothing and raises; from then on nothing is
\* written and no line is consumed; the run ends with a non-zero status; and
\* the wire is the hello and the requests of the valid lines before it, each
\* completed.
C15_ValidationFatal ==
    /\ [][(pc = "loop" /\ lineno < Len(script)
              /\ IsInvalidLine(script[lineno + 1]))
            => (io' = io /\ exc' = "ValueError" /\ pc' = "finally")]_vars
    /\ [][ValidationFailed => (io' = io /\ lineno' = lineno)]_vars
    /\ [](ValidationFailed =>
            /\ IsInvalidLine(script[lineno])
            /\ pc \in {"finally", "exit"}
            /\ pc = "exit" => status \notin {-1, EXIT_OK}
            /\ IsWrite(1) /\ dict_get(Value(1), "op") = JStr("hello")
            /\ LET before == RequestLinesBefore(lineno)
               IN  /\ Len(ScriptWriteSeq) = Len(before)
                   /\ \A n \in 1..Len(before) :
                        /\ IsRequestLine(script[before[n]])
                        /\ dict_get(Value(ScriptWriteSeq[n]), "op")
                             = dict_get(json_loads(script[before[n]]).value,
                                        "op")
                        /\ \E k \in (ScriptWriteSeq[n] + 1)
                                      ..(NextWrite(ScriptWriteSeq[n]) - 1) :
                             Completes(k, ScriptWriteSeq[n]))

\* A run has ended on an empty op in its second line, after the request of
\* its first line was written and completed.
C15_Witness ==
    /\ ValidationFailed /\ pc = "exit"
    /\ lineno = 2
    /\ script[2] = <<Req([op |-> JStr("")])>>
    /\ Len(ScriptWriteSeq) = 1

-----------------------------------------------------------------------------
(* Failed reads. *)

\* A step in which a read finds the peer's stream closed, and one in which
\* it receives a line that is not the text of a JSON value.
StreamEnds == stream_end = "open" /\ stream_end' = "closed"
MalformedReceived ==
    /\ Len(io') = Len(io) + 1
    /\ io'[Len(io')].d = "r"
    /\ ~json_loads(io'[Len(io')].line).ok

\* The run is in its finally clause after a failed read or decode.
ReadFailed == pc = "finally" /\ exc \in {"EOFError", "JSONDecodeError"}

\* C16: when the stream ends or a malformed line arrives under a drain, the
\* drain raises, EOFError for the end of the stream and JSONDecodeError for
\* the malformed line; the next step is the finally clause, which writes
\* nothing, reads nothing, closes the stream and gives a non-zero status;
\* and a run that has ended takes no further step.
C16_DrainReadFatal ==
    /\ [][(pc = "drain" /\ StreamEnds)
            => (pc' = "finally" /\ exc' = "EOFError" /\ io' = io)]_vars
    /\ [][(pc = "drain" /\ MalformedReceived)
            => (pc' = "finally" /\ exc' = "JSONDecodeError")]_vars
    /\ [][ReadFailed
            => /\ io' = io /\ stream_end' = stream_end
               /\ pc' = "exit"
               /\ open'.sock = "closed" /\ open'.reader = "closed"
               /\ open'.writer = "closed"
               /\ status' \notin {-1, EXIT_OK}]_vars
    /\ [][pc # "exit"]_vars

\* A run has ended on the end of the stream under the drain of its first
\* request, after one event of that drain was read.
C16_Witness ==
    /\ pc = "exit" /\ exc = "EOFError"
    /\ stream_end = "closed"
    /\ Len(io) = 4 /\ IsWrite(3) /\ IsRead(4)
    /\ StreamClosed

-----------------------------------------------------------------------------
(* The line reader alone: read_json_line called again and again on one     *)
(* stream of blank and non-blank lines, until a call raises.               *)

ReaderLines ==
    {<<>>, <<WS>>, <<WS, WS>>,
     <<Ev("ok")>>,
     <<WS, Req([event |-> JStr("state"), id |-> JInt(9)]), WS>>,
     <<JUNK>>}

\* Streams of many blank lines and then an event: as many as the interpreter
\* lets read_json_line nest, and one more.
LongStreams ==
    {[i \in 1..(k + 1) |-> IF i <= k THEN <<>> ELSE <<Ev("ok")>>] :
        k \in {RecursionLimit - FramesAround,
               RecursionLimit - FramesAround + 1}}

\* reader.rest: the lines not yet consumed; reader.before: the lines not
\* yet consumed when the last call was made; reader.result: what the last
\* call returned or raised.
InitReader ==
    /\ argv = BaseArgv
    /\ script = <<>>
    /\ pc = "read_json_line"
    /\ conn = NoFrame
    /\ next_id = 0
    /\ lineno = 0
    /\ done_event = ""
    /\ io = <<>>
    /\ stdout = <<>>
    /\ open = [sock |-> "open", reader |-> "open", writer |-> "open",
               file |-> "none"]
    /\ exc = "None"
    /\ status = -1
    /\ stream_end = "open"
    /\ \E s \in SeqsUpTo(ReaderLines, MaxBlank + 2) \cup LongStreams,
          e \in {"closed", "silent"} :
         reader = [NoReader EXCEPT !.rest = s, !.end = e]

\* One call of read_json_line (lines 85-92) on what is left of the stream.
ReadCall ==
    /\ pc = "read_json_line"
    /\ reader.result.exc = "None"
    /\ LET r == read_json_line(reader.rest, reader.end, 0)
       IN  reader' = [reader EXCEPT
                         !.before = reader.rest,
                         !.rest = SubSeq(reader.rest, r.n + 1,
                                         Len(reader.rest)),
                         !.calls = reader.calls + 1,
                         !.result = r]
    /\ UNCHANGED <<argv, script, pc, conn, next_id, lineno, done_event, io,
                   stdout, open, exc, status, stream_end>>

NextReader == ReadCall

SpecReader == InitReader /\ [][NextReader]_vars

\* The number of blank lines at the head of a stream.
LeadingBlanks(s) ==
    CHOOSE n \in 0..Len(s) :
        /\ \A i \in 1..n : IsBlankLine(s[i])
        /\ n = Len(s) \/ ~IsBlankLine(s[n + 1])

\* C17: a read on a stream that holds n >= 0 whitespace-only lines and then
\* a non-blank line consumes exactly those n + 1 lines, leaves the stream at
\* the line after them, and returns the value of the non-blank line; it
\* raises only when the non-blank line itself does not decode, never for
\* the blank lines or for an end of stream.
C17_BlankLinesSkipped ==
    reader.calls > 0 =>
        LET s == reader.before
            n == LeadingBlanks(s)
            r == reader.result
        IN  n < Len(s) =>
              /\ r.n = n + 1
              /\ r.line = s[n + 1]
              /\ reader.rest = SubSeq(s, n + 2, Len(s))
              /\ IF json_loads(s[n + 1]).ok
                 THEN r.exc = "None" /\ r.value = json_loads(s[n + 1]).value
                 ELSE r.exc = "JSONDecodeError"

-----------------------------------------------------------------------------
(* The connect loop alone: every command line, up to the connected state   *)
(* or the failure, the loop taking its next turn whenever it has one.      *)

NextConnect ==
    \/ ParseArgs
    \/ Connect
    \/ ConnectLoop

SpecConnect == Init /\ [][NextConnect]_vars /\ WF_vars(NextConnect)

\* The target address and its transport.
Target == IF argv.tcp # NoArg THEN argv.tcp ELSE argv.uds
Transport == IF argv.tcp # NoArg THEN "tcp" ELSE "uds"

\* A turn of the loop that makes an attempt: one that succeeds, and one
\* that fails (a failed attempt and the sleep after it take time).
AttemptSucceeds == pc = "connect_loop" /\ pc' = "hello"
AttemptFails == pc = "connect_loop" /\ conn'.now > conn.now
\* The turn in which the loop gives up.
LoopFails == pc = "connect_loop" /\ pc' = "exit"

DeadlinePassed == conn.now >= conn.deadline

\* What the claim says of the loop apart from the error its failure wraps.
ConnectLoopTerminates ==
    /\ (pc = "connect_loop") ~> (pc \in {"hello", "exit"})
    /\ [][pc' = "connect_loop" => pc \in {"connect", "connect_loop"}]_vars
    /\ [][AttemptSucceeds => (open'.sock = "open" /\ exc' = "None")]_vars
    /\ [][(AttemptSucceeds \/ AttemptFails) => ~DeadlinePassed]_vars
    /\ [][AttemptFails => conn'.last_err = "OSError"]_vars
    /\ [][LoopFails => (DeadlinePassed /\ exc' = "RuntimeError"
                          /\ open'.sock = "none")]_vars

\* C18 as stated: for every timeout budget >= 0 the loop terminates, returns
\* the stream of the first attempt that succeeds, attempts only while the
\* deadline has not passed, fails only once it has passed, and its failure
\* wraps the error of the last failed attempt and the target address.
C18_FailureWrapsLastError ==
    /\ ConnectLoopTerminates
    /\ [][LoopFails
            => conn'.raised = connect_error(Transport, Target, "OSError")]_vars

-----------------------------------------------------------------------------
(* Runs over requests with and without an id (null, a string) and with     *)
(* other fields, against a peer whose events carry ids of their own.       *)

IdScriptLines ==
    {<<Req([op |-> JStr("get_state")])>>,
     <<Req([op |-> JStr("get_state"), id |-> None])>>,
     <<Req([op |-> JStr("set_actions"), id |-> JStr("a"),
            actions |-> JArr])>>,
     <<Req([op |-> JStr("pulse"), frames |-> JInt(3)])>>}

IdPeerLines ==
    {<<Ev("hello")>>,
     <<Ev("ok")>>,
     <<Req([event |-> JStr("ok"), id |-> JInt(9)])>>,
     <<Req([event |-> JStr("state"), id |-> JInt(9)])>>,
     <<Req([event |-> JStr("error"), id |-> JInt(9)])>>,
     <<Req([event |-> JStr("log"), id |-> JInt(2)])>>}

InitIds ==
    /\ argv \in ProtocolArgv
    /\ script \in SeqsUpTo(IdScriptLines, MaxScript)
    /\ InitRest

NextIds ==
    \/ ParseArgs
    \/ Connect
    \/ ConnectLoop
    \/ SendHello
    \/ ReadHello(IdPeerLines)
    \/ OpenScript
    \/ NextLine
    \/ Drain(IdPeerLines)
    \/ Finally

SpecIds == InitIds /\ [][NextIds]_vars

\* The request as the script gives it, for the request written at place i.
Source(i) == json_loads(SourceLine(i)).value

\* C19: a request on the wire differs from the request of its script line
\* at most in an injected id: a request that has an id key, whatever its
\* value, is written as parsed; without --auto-id a request that has no id
\* is written as parsed, so without one; and in every case every field but
\* id is written as parsed and no field is added.
C19_OnlyIdInjected ==
    \A i \in ScriptWrites :
        /\ dict_has(Source(i), "id") => Value(i) = Source(i)
        /\ (~argv.auto_id /\ ~dict_has(Source(i), "id"))
              => (Value(i) = Source(i) /\ ~dict_has(Value(i), "id"))
        /\ DOMAIN Value(i)[2] \subseteq DOMAIN Source(i)[2] \cup {"id"}
        /\ \A key \in DOMAIN Source(i)[2] \ {"id"} :
              dict_has(Value(i), key)
              /\ dict_get(Value(i), key) = dict_get(Source(i), key)

\* With --auto-id, a request whose id is null and one whose id is a string
\* were written as parsed.
C19_Witness ==
    /\ argv.auto_id
    /\ \E i, j \in ScriptWrites :
          /\ dict_has(Value(i), "id") /\ Id(i) = None
          /\ Id(j) = JStr("a") /\ dict_get(Value(j), "actions") = JArr

\* An event that ends the drain of the pending request by its name: error,
\* or the request's completion event.
NamedAsCompletion(line) ==
    \/ LineEvent(line) = JStr("error")
    \/ /\ Op(Pending) \in TableOps
       /\ LineEvent(line) = JStr(CompletionTable[Op(Pending)])

\* C20: whether a received event ends the drain depends on its name alone:
\* an event named error or named as the request's completion event ends the
\* drain whatever id it carries (the request's, another, none), and any
\* other event leaves the drain running, the request's own id included.
C20_CompletionByNameOnly ==
    [][(pc = "drain" /\ Len(io') = Len(io) + 1
           /\ json_loads(io'[Len(io')].line).ok)
         => IF NamedAsCompletion(io'[Len(io')].line)
            THEN pc' = "loop"
            ELSE pc' = "drain"]_vars

\* A request written with id 2 was completed by a state event carrying id 9.
C20_Witness ==
    \E i \in ScriptWrites :
        /\ Id(i) = JInt(2) /\ Op(i) = "get_state"
        /\ i < Len(io)
        /\ io[i + 1] = [d |-> "r",
                        line |-> <<Req([event |-> JStr("state"),
                                        id |-> JInt(9)])>>]
        /\ pc \in {"loop", "finally", "exit"} /\ exc = "None"

=============================================================================
